---- MODULE Spec2Model ----
(***************************************************************************)
(* Model of custom_components/mobilealerts/sensorhistory.py: the           *)
(* MobileAlertsData fetcher (throttled update, get_reading,                *)
(* get_results_table, get_position, get_measurements) and the              *)
(* MobileAlertsWeather sensor (historic and current mode).                 *)
(*                                                                         *)
(* Conventions                                                             *)
(*  - a text is a sequence of one-character strings;                       *)
(*  - a number read from the page is kept in tenths (12.3 is 123), an      *)
(*    aggregate before rounding is the exact fraction num/den of tenths;   *)
(*  - a Python value is a record [t, v]: t is "None", "int" or "float"     *)
(*    and v the integer, or the tenths of the float; a unit is a record    *)
(*    [t, v] with t "None" or "str" and v the text;                        *)
(*  - the clock counts ticks, TicksPerHour of them to the hour.            *)
(***************************************************************************)
EXTENDS Integers, Sequences, FiniteSets, TLC

\* ------------------------------------------------------------------ bounds

\* resolution of the clock: ticks per hour
TicksPerHour == 2
\* the clock stops at MaxTime ticks
MaxTime == 4
\* longest time (ticks) one HTTP GET may take
MaxFetchTicks == 1
\* most body rows of a table of the pure-function specification
MaxRows == 2

\* --------------------------------------------------------------- constants

CONF_MAXIMUM == "maximum"
CONF_MINIMUM == "minimum"
CONF_MEAN == "mean"
CONF_DIFFERENCE == "difference"

\* timedelta(hours=1), in ticks
MIN_TIME_BETWEEN_UPDATES == 1 * TicksPerHour

DEVICE_CLASS == [temperature |-> "Temperature", humidity |-> "Humidity"]

METHOD_TYPES == {CONF_MAXIMUM, CONF_MINIMUM, CONF_MEAN, CONF_DIFFERENCE}

\* config.get(CONF_METHOD) of an optional key without default
NoMethod == "None"

\* ------------------------------------------------------------ Python values

PyNone == [t |-> "None", v |-> 0]
PyInt(n) == [t |-> "int", v |-> n]
PyFloat(tenths) == [t |-> "float", v |-> tenths]

NoUnit == [t |-> "None", v |-> <<>>]
PyStr(s) == [t |-> "str", v |-> s]

\* ------------------------------------------------------------------- texts

DigitChars == {"0", "1", "2", "3", "4", "5", "6", "7", "8", "9"}

IsDigit(c) == c \in DigitChars

DigitVal(c) ==
    CASE c = "0" -> 0 [] c = "1" -> 1 [] c = "2" -> 2 [] c = "3" -> 3
      [] c = "4" -> 4 [] c = "5" -> 5 [] c = "6" -> 6 [] c = "7" -> 7
      [] c = "8" -> 8 [] c = "9" -> 9

AllDigits(s) == \A i \in 1..Len(s) : IsDigit(s[i])

RECURSIVE DigitsValue(_)
DigitsValue(s) ==
    IF s = <<>> THEN 0
    ELSE DigitsValue(SubSeq(s, 1, Len(s) - 1)) * 10 + DigitVal(s[Len(s)])

\* str.strip() as float() applies it: blanks off both ends
RECURSIVE Strip(_)
Strip(s) ==
    IF s = <<>> THEN s
    ELSE IF s[1] = " " THEN Strip(Tail(s))
    ELSE IF s[Len(s)] = " " THEN Strip(SubSeq(s, 1, Len(s) - 1))
    ELSE s

\* position of the first c in s, 0 when there is none
IndexOf(s, c) ==
    IF \E i \in 1..Len(s) : s[i] = c
    THEN CHOOSE i \in 1..Len(s) : s[i] = c /\ \A j \in 1..(i - 1) : s[j] # c
    ELSE 0

\* float(text): blanks stripped, an optional sign, digits with an optional
\* point; ok = FALSE is ValueError.  The value is in tenths: the texts of
\* this model carry at most one decimal.
ParseFloat(text) ==
    LET s == Strip(text)
        signed == s # <<>> /\ s[1] \in {"-", "+"}
        neg == s # <<>> /\ s[1] = "-"
        body == IF signed THEN Tail(s) ELSE s
        dot == IndexOf(body, ".")
        ip == IF dot = 0 THEN body ELSE SubSeq(body, 1, dot - 1)
        fp == IF dot = 0 THEN <<>> ELSE SubSeq(body, dot + 1, Len(body))
        ok == AllDigits(ip) /\ AllDigits(fp) /\ Len(ip) + Len(fp) >= 1
        mag == DigitsValue(ip) * 10 + (IF fp = <<>> THEN 0 ELSE DigitVal(fp[1]))
    IN  [ok |-> ok, v |-> IF ok THEN (IF neg THEN 0 - mag ELSE mag) ELSE 0]

\* the slice s[:-n]: s[:-0] is s[:0], the empty text
SliceToMinus(s, n) ==
    IF n = 0 THEN <<>>
    ELSE IF n >= Len(s) THEN <<>>
    ELSE SubSeq(s, 1, Len(s) - n)

\* the slice s[-n:] for n >= 1
LastChars(s, n) ==
    IF n >= Len(s) THEN s ELSE SubSeq(s, Len(s) - n + 1, Len(s))

\* ------------------------------------------- package helpers (__init__.py)

\* number of characters at the end of s after its last digit
RECURSIVE TrailingNonDigits(_)
TrailingNonDigits(s) ==
    IF s = <<>> \/ IsDigit(s[Len(s)]) THEN 0
    ELSE 1 + TrailingNonDigits(SubSeq(s, 1, Len(s) - 1))

\* number of characters at the end of s that are neither digit nor blank
RECURSIVE TrailingLabel(_)
TrailingLabel(s) ==
    IF s = <<>> \/ IsDigit(s[Len(s)]) \/ s[Len(s)] = " " THEN 0
    ELSE 1 + TrailingLabel(SubSeq(s, 1, Len(s) - 1))

\* extract_start_stop(source): how many trailing characters are "unit +
\* decoration" (reading_from_end) and how many are the unit label
extract_start_stop(source) ==
    [reading_from_end |-> TrailingNonDigits(source),
     unit_from_end |-> TrailingLabel(source)]

\* extract_value_units(source): the reading before the unit suffix and the
\* unit label itself
extract_value_units(source) ==
    LET n == TrailingNonDigits(source)
        u == TrailingLabel(source)
        f == ParseFloat(SubSeq(source, 1, Len(source) - n))
    IN  [value |-> IF f.ok THEN PyFloat(f.v) ELSE PyNone,
         unit |-> PyStr(IF u = 0 THEN <<>> ELSE LastChars(source, u))]

\* ------------------------------------------------------ the scraped table

\* a table: head, the texts of the <th> cells; body, one sequence of <td>
\* texts per <tr> of the <tbody>

\* columns.index(column_name): the zero-based position of the first match;
\* raised = TRUE is the "Column ... not found" exception
get_position(data_table, column_name) ==
    LET columns == data_table.head
        found == {i \in 1..Len(columns) : columns[i] = column_name}
    IN  IF found = {}
        THEN [raised |-> TRUE, col_no |-> 0]
        ELSE [raised |-> FALSE,
              col_no |-> (CHOOSE i \in found : \A j \in found : i <= j) - 1]

\* the texts of column col of every body row, in row order
ColumnCells(data_table, col) ==
    [r \in 1..Len(data_table.body) |-> data_table.body[r][col + 1]]

\* mutant: no early return for an empty body, so measurements[0] raises
get_measurements_NoEmptyCheck(data_table, column_name, is_numeric) ==
    LET pos == get_position(data_table, column_name)
        measurements == ColumnCells(data_table, pos.col_no)
        reading_from_end == extract_start_stop(measurements[1]).reading_from_end
        unit == extract_value_units(measurements[1]).unit.v
        stripped == [r \in 1..Len(measurements) |->
                        SliceToMinus(measurements[r], reading_from_end)]
    IN  IF pos.raised \/ Len(measurements) = 0
        THEN [raised |-> TRUE, values |-> <<>>, unit |-> <<>>]
        ELSE IF is_numeric
        THEN IF \E r \in 1..Len(stripped) : ~ParseFloat(stripped[r]).ok
             THEN [raised |-> TRUE, values |-> <<>>, unit |-> <<>>]
             ELSE [raised |-> FALSE,
                   values |-> [r \in 1..Len(stripped) |-> ParseFloat(stripped[r]).v],
                   unit |-> unit]
        ELSE [raised |-> FALSE, values |-> stripped, unit |-> unit]

\* get_measurements(data_table, column_name, is_numeric): raised = TRUE is
\* the exception of get_position or the ValueError of float()
get_measurements(data_table, column_name, is_numeric) ==
    LET pos == get_position(data_table, column_name)
        measurements == ColumnCells(data_table, pos.col_no)
        reading_from_end == extract_start_stop(measurements[1]).reading_from_end
        unit == extract_value_units(measurements[1]).unit.v
        stripped == [r \in 1..Len(measurements) |->
                        SliceToMinus(measurements[r], reading_from_end)]
    IN  IF pos.raised
        THEN [raised |-> TRUE, values |-> <<>>, unit |-> <<>>]
        ELSE IF Len(measurements) = 0
        THEN [raised |-> FALSE, values |-> <<>>, unit |-> <<>>]
        ELSE IF is_numeric
        THEN IF \E r \in 1..Len(stripped) : ~ParseFloat(stripped[r]).ok
             THEN [raised |-> TRUE, values |-> <<>>, unit |-> <<>>]
             ELSE [raised |-> FALSE,
                   values |-> [r \in 1..Len(stripped) |-> ParseFloat(stripped[r]).v],
                   unit |-> unit]
        ELSE [raised |-> FALSE, values |-> stripped, unit |-> unit]

\* ----------------------------------------------------------- aggregation

\* max(values) and min(values) as the built-ins scan the list
RECURSIVE PyMax(_)
PyMax(values) ==
    IF Len(values) = 1 THEN values[1]
    ELSE LET m == PyMax(SubSeq(values, 1, Len(values) - 1))
         IN  IF values[Len(values)] > m THEN values[Len(values)] ELSE m

RECURSIVE PyMin(_)
PyMin(values) ==
    IF Len(values) = 1 THEN values[1]
    ELSE LET m == PyMin(SubSeq(values, 1, Len(values) - 1))
         IN  IF values[Len(values)] < m THEN values[Len(values)] ELSE m

RECURSIVE PySum(_)
PySum(values) ==
    IF values = <<>> THEN 0 ELSE values[1] + PySum(Tail(values))

\* mutant: the difference taken as last minus first
AggregateLastMinusFirst(values, method) ==
    IF method = CONF_MAXIMUM
    THEN [num |-> PyMax(values), den |-> 1, isint |-> FALSE]
    ELSE IF method = CONF_MINIMUM
    THEN [num |-> PyMin(values), den |-> 1, isint |-> FALSE]
    ELSE IF method = CONF_MEAN
    THEN [num |-> PySum(values), den |-> Len(values), isint |-> FALSE]
    ELSE IF method = CONF_DIFFERENCE
    THEN [num |-> values[Len(values)] - values[1], den |-> 1, isint |-> FALSE]
    ELSE [num |-> 0, den |-> 1, isint |-> TRUE]

\* the result of the method branch, before rounding: the fraction num/den
\* of tenths; isint marks the literal 0 an unknown method leaves
Aggregate(values, method) ==
    IF method = CONF_MAXIMUM
    THEN [num |-> PyMax(values), den |-> 1, isint |-> FALSE]
    ELSE IF method = CONF_MINIMUM
    THEN [num |-> PyMin(values), den |-> 1, isint |-> FALSE]
    ELSE IF method = CONF_MEAN
    THEN [num |-> PySum(values), den |-> Len(values), isint |-> FALSE]
    ELSE IF method = CONF_DIFFERENCE
    THEN [num |-> values[1] - values[Len(values)], den |-> 1, isint |-> FALSE]
    ELSE [num |-> 0, den |-> 1, isint |-> TRUE]

\* floor of a/b for b > 0
FloorDiv(a, b) == a \div b

\* mutant: the test made on the magnitude, abs(result) > 100
ExceedsHundredInMagnitude(result) ==
    result.num > 1000 * result.den \/ result.num < 0 - 1000 * result.den

\* the test "result > 100"
ExceedsHundred(result) == result.num > 1000 * result.den

\* int(result) for a result above 100: the whole part
Truncate(result) == PyInt(FloorDiv(result.num, 10 * result.den))

\* round(result, 1): the nearest tenth; a result exactly halfway between
\* two tenths goes to either of them, as the binary value of the float
\* decides
RoundOneDecimal(result) ==
    IF result.isint THEN {PyInt(result.num)}
    ELSE LET lo == FloorDiv(result.num, result.den)
             twice == 2 * (result.num - lo * result.den)
         IN  IF twice < result.den THEN {PyFloat(lo)}
             ELSE IF twice > result.den THEN {PyFloat(lo + 1)}
             ELSE {PyFloat(lo), PyFloat(lo + 1)}

\* lines 159-163: the values get_reading may return for a result
PostProcess(result) ==
    IF ExceedsHundred(result) THEN {Truncate(result)} ELSE RoundOneDecimal(result)

\* ------------------------------------------------------------ the network

\* what requests.get produces: an exception of class kind, or a response
\* (kind "response") with a status code and the tables of its page
Raises(kind) == [kind |-> kind, status |-> 0, tables |-> <<>>]
Response(status, tables) == [kind |-> "response", status |-> status, tables |-> tables]

\* requests.codes.ok
HTTP_OK == 200

\* the base class of an exception class: the HTTP client's exceptions
\* derive from its RequestException (an IOError), the built-in
\* ConnectionError and TimeoutError from OSError
BaseOf(cls) ==
    CASE cls = "requests.ConnectionError" -> "requests.RequestException"
      [] cls = "requests.Timeout" -> "requests.RequestException"
      [] cls = "requests.RequestException" -> "OSError"
      [] cls = "ConnectionError" -> "OSError"
      [] cls = "TimeoutError" -> "OSError"
      [] cls = "OSError" -> "Exception"
      [] OTHER -> "BaseException"

RECURSIVE IsSubclass(_, _)
IsSubclass(cls, of) ==
    IF cls = of THEN TRUE
    ELSE IF cls = "BaseException" THEN FALSE
    ELSE IsSubclass(BaseOf(cls), of)

\* the two except clauses of get_results_table: the names ConnectionError
\* and TimeoutError are the built-ins (the module imports neither)
Caught(kind) == IsSubclass(kind, "ConnectionError") \/ IsSubclass(kind, "TimeoutError")

NoTable == [head |-> <<>>, body |-> <<>>]

\* mutant: the status code is not looked at
get_results_table_AnyStatus(reply) ==
    IF reply.kind # "response"
    THEN IF Caught(reply.kind)
         THEN [raised |-> FALSE, none |-> TRUE, table |-> NoTable]
         ELSE [raised |-> TRUE, none |-> FALSE, table |-> NoTable]
    ELSE IF Len(reply.tables) = 0
    THEN [raised |-> FALSE, none |-> TRUE, table |-> NoTable]
    ELSE [raised |-> FALSE, none |-> FALSE, table |-> reply.tables[1]]

\* get_results_table: raised, or the table, or None (none = TRUE)
get_results_table(reply) ==
    IF reply.kind # "response"
    THEN IF Caught(reply.kind)
         THEN [raised |-> FALSE, none |-> TRUE, table |-> NoTable]
         ELSE [raised |-> TRUE, none |-> FALSE, table |-> NoTable]
    ELSE IF reply.status # HTTP_OK
    THEN [raised |-> TRUE, none |-> FALSE, table |-> NoTable]
    ELSE IF Len(reply.tables) = 0
    THEN [raised |-> FALSE, none |-> TRUE, table |-> NoTable]
    ELSE [raised |-> FALSE, none |-> FALSE, table |-> reply.tables[1]]

Raised == [raised |-> TRUE, obs |-> PyNone, unit |-> PyStr(<<>>)]
Returns(obs, unit) == [raised |-> FALSE, obs |-> obs, unit |-> PyStr(unit)]

\* get_reading of a fetcher with this device class and method, when the
\* GET ends as reply: the set of (obs, unit) it may return, or Raised
get_reading(reply, device_class, method) ==
    LET t == get_results_table(reply)
        m == get_measurements(t.table, DEVICE_CLASS[device_class], TRUE)
    IN  IF t.raised THEN {Raised}
        ELSE IF t.none THEN {Returns(PyNone, <<>>)}
        ELSE IF m.raised THEN {Raised}
        ELSE IF Len(m.values) = 0 THEN {Returns(PyInt(0), <<>>)}
        ELSE {Returns(o, m.unit) : o \in PostProcess(Aggregate(m.values, method))}

\* ------------------------------------------------------------ the fetcher

\* MobileAlertsData.__init__; throttle is the Throttle decorator's
\* record of the last run (set = FALSE: never run)
NewMobileAlertsData(device_class, method) ==
    [device_class |-> device_class, method |-> method,
     data |-> PyNone, unit |-> NoUnit,
     throttle |-> [set |-> FALSE, at |-> 0]]

\* mutant: the window counted as over once min_time has passed (>=)
ThrottlePassesAtWindow(throttle, t) ==
    ~throttle.set \/ t - throttle.at >= MIN_TIME_BETWEEN_UPDATES

\* Throttle: the method runs when it never ran or the last run ended more
\* than min_time ago
ThrottlePasses(throttle, t) ==
    ~throttle.set \/ t - throttle.at > MIN_TIME_BETWEEN_UPDATES

\* Throttle: the time is recorded after the method returned
ThrottleStamp(m, t) == [m EXCEPT !.throttle = [set |-> TRUE, at |-> t]]

\* mutant: the result is stored without the test for None
StoreReadingAlways(m, res) == [m EXCEPT !.data = res.obs, !.unit = res.unit]

\* the body of MobileAlertsData.update on what get_reading returned
StoreReading(m, res) ==
    IF res.obs.t = "None" THEN m
    ELSE [m EXCEPT !.data = res.obs, !.unit = res.unit]

\* ------------------------------------------------------------- the sensor

\* MobileAlertsWeather.historic(name, mad) and .current(name, device_class,
\* weather)
Historic(mad_ref) ==
    [mad |-> mad_ref, device_class |-> "None", weather |-> "None",
     state |-> PyNone, unit_of_measurement |-> PyStr(<<>>)]
Current(device_class, weather) ==
    [mad |-> "None", device_class |-> device_class, weather |-> weather,
     state |-> PyNone, unit_of_measurement |-> PyStr(<<>>)]

\* mutant: the unit is not copied
CopyCacheStateOnly(s, m) == [s EXCEPT !.state = m.data]

\* lines 318-319
CopyCache(s, m) == [s EXCEPT !.state = m.data, !.unit_of_measurement = m.unit]

\* lines 322-324
CopyWeather(s, sensor_value) ==
    LET vu == extract_value_units(sensor_value)
    IN  [s EXCEPT !.state = vu.value, !.unit_of_measurement = vu.unit]

\* ------------------------------------------------------------------ inputs

NumTexts ==
    { <<"7">>, <<"1", "2", ".", "3">>, <<"-", "3", ".", "5">>, <<"1", "0", "0">>,
      <<"1", "0", "0", ".", "4">>, <<"-", "1", "5", "0", ".", "5">> }

\* unit suffixes of 2, 1 and 0 characters
Suffixes == { <<" ", "C">>, <<"%">>, <<>> }

Cells == {n \o u : n \in NumTexts, u \in Suffixes}

TimeText == <<"1", "0", ":", "0", "0">>

Rows == {<<TimeText, c>> : c \in Cells}

Bodies == UNION {[1..n -> Rows] : n \in 0..MaxRows}

Heads == { <<"Time", "Temperature">>, <<"Time", "Humidity">> }

Tables == {[head |-> h, body |-> b] : h \in Heads, b \in Bodies}

\* the tables the pages of the system specification carry
TEmpty == [head |-> <<"Time", "Temperature">>, body |-> <<>>]
TTwo == [head |-> <<"Time", "Temperature">>,
         body |-> << <<TimeText, <<"1", "2", ".", "3", " ", "C">> >>,
                     <<TimeText, <<"7", " ", "C">> >> >>]
TNoColumn == [head |-> <<"Time", "Humidity">>,
              body |-> << <<TimeText, <<"7", "%">> >> >>]

Replies ==
    {Raises(k) : k \in {"ConnectionError", "TimeoutError",
                        "requests.ConnectionError", "requests.Timeout"}}
    \cup {Response(503, <<>>), Response(HTTP_OK, <<>>)}
    \cup {Response(HTTP_OK, <<t>>) : t \in {TEmpty, TTwo, TNoColumn}}

NoReply == [kind |-> "none", status |-> 0, tables |-> <<>>]

\* hass.states.get(weather): the entity and the text of its attribute
WeatherAttrs == { <<"1", "2", ".", "3", " ", "C">>, <<"7", "%">> }
WeatherStates ==
    {[present |-> FALSE, attr |-> <<>>]}
    \cup {[present |-> TRUE, attr |-> a] : a \in WeatherAttrs}

SensorIds == {"h", "c"}

\* the methods the fetcher of the system specification is configured with
SystemMethods == {CONF_MEAN, NoMethod}

\* ------------------------------------------------------------------- state

VARIABLES
    now,       \* the clock, in ticks
    mad,       \* the MobileAlertsData instance of the historic sensor
    sensors,   \* the MobileAlertsWeather entities, by id
    last,      \* history: the last update call and how it went
    lastReq,   \* history: the last call that issued a GET
    lastOk,    \* history: the last call whose fetch returned normally
    lastGood,  \* history: the sensor after the last update that read values
    lastStored,\* history: the sensor after the last update that stored a result
    probe      \* the pure-function specification: inputs and results

vars == <<now, mad, sensors, last, lastReq, lastOk, lastGood, lastStored, probe>>
sysvars == <<now, mad, sensors, last, lastReq, lastOk, lastGood, lastStored>>

NoMeasurements == [raised |-> FALSE, values |-> <<>>, unit |-> <<>>]
NoResult == [num |-> 0, den |-> 1, isint |-> TRUE]
IdleProbe ==
    [phase |-> "idle", table |-> NoTable, method |-> NoMethod,
     is_numeric |-> TRUE, meas |-> NoMeasurements,
     result |-> NoResult, reading |-> Raised]

NoRequest == [set |-> FALSE, at |-> 0, done |-> 0, reply |-> NoReply, raised |-> FALSE]
NoReturn == [set |-> FALSE, done |-> 0]
NoSensorState == [set |-> FALSE, state |-> PyNone, unit |-> NoUnit]

\* prevReq and prevOk are lastReq and lastOk as the call found them
NoCall ==
    [op |-> "none", id |-> "none", at |-> 0, done |-> 0, nreq |-> 0,
     reply |-> NoReply, raised |-> FALSE, throttled |-> FALSE, attr |-> <<>>,
     prevReq |-> NoRequest, prevOk |-> NoReturn]

InitSystem(method) ==
    /\ now = 0
    /\ mad = NewMobileAlertsData("temperature", method)
    /\ sensors = [id \in SensorIds |->
                    IF id = "h" THEN Historic("mad")
                    ELSE Current("temperature", "weather.ma")]
    /\ last = NoCall
    /\ lastReq = NoRequest
    /\ lastOk = NoReturn
    /\ lastGood = NoSensorState
    /\ lastStored = NoSensorState

Init ==
    /\ \E method \in SystemMethods : InitSystem(method)
    /\ probe = IdleProbe

\* ------------------------------------------- what a reply is, for history

HasColumn(table, device_class) ==
    \E i \in 1..Len(table.head) : table.head[i] = DEVICE_CLASS[device_class]

\* how the GET went: "connection", "timeout", "status" (not 200),
\* "notable", "nocolumn", "empty" (the column has no rows) or "data"
ReplyClass(reply, device_class) ==
    IF reply.kind \in {"ConnectionError", "requests.ConnectionError"} THEN "connection"
    ELSE IF reply.kind \in {"TimeoutError", "requests.Timeout"} THEN "timeout"
    ELSE IF reply.kind # "response" THEN "none"
    ELSE IF reply.status # 200 THEN "status"
    ELSE IF reply.tables = <<>> THEN "notable"
    ELSE IF ~HasColumn(reply.tables[1], device_class) THEN "nocolumn"
    ELSE IF reply.tables[1].body = <<>> THEN "empty"
    ELSE "data"

ReadValues(reply, device_class) == ReplyClass(reply, device_class) = "data"

SensorState(s) == [set |-> TRUE, state |-> s.state, unit |-> s.unit_of_measurement]

\* ----------------------------------------------------------------- actions

Tick ==
    /\ now < MaxTime
    /\ now' = now + 1
    /\ UNCHANGED <<mad, sensors, last, lastReq, lastOk, lastGood, lastStored, probe>>

\* MobileAlertsWeather.update, historic branch, the fetcher's update
\* throttled: lines 313, 318, 319
ThrottledCall(id) ==
    /\ ~ThrottlePasses(mad.throttle, now)
    /\ sensors' = [sensors EXCEPT ![id] = CopyCache(@, mad)]
    /\ last' = [NoCall EXCEPT !.op = "historic", !.id = id, !.at = now,
                              !.done = now, !.throttled = TRUE,
                              !.prevReq = lastReq, !.prevOk = lastOk]
    /\ UNCHANGED <<now, mad, lastReq, lastOk, lastGood, lastStored, probe>>

\* MobileAlertsWeather.update, historic branch, the fetcher's update run:
\* the GET takes d ticks and ends as reply
FetchCall(id, reply, d) ==
    /\ ThrottlePasses(mad.throttle, now)
    /\ now + d <= MaxTime
    /\ \E res \in get_reading(reply, mad.device_class, mad.method) :
        /\ now' = now + d
        /\ last' = [NoCall EXCEPT !.op = "historic", !.id = id, !.at = now,
                                  !.done = now + d, !.nreq = 1, !.reply = reply,
                                  !.raised = res.raised,
                                  !.prevReq = lastReq, !.prevOk = lastOk]
        /\ lastReq' = [set |-> TRUE, at |-> now, done |-> now + d,
                       reply |-> reply, raised |-> res.raised]
        /\ IF res.raised
           THEN UNCHANGED <<mad, sensors, lastOk, lastGood, lastStored>>
           ELSE /\ mad' = ThrottleStamp(StoreReading(mad, res), now + d)
                /\ sensors' = [sensors EXCEPT ![id] = CopyCache(@, mad')]
                /\ lastOk' = [set |-> TRUE, done |-> now + d]
                /\ lastGood' = IF ReadValues(reply, mad.device_class)
                               THEN SensorState(sensors'[id]) ELSE lastGood
                /\ lastStored' = IF res.obs.t # "None"
                                 THEN SensorState(sensors'[id]) ELSE lastStored
    /\ UNCHANGED probe

HistoricUpdate(id) ==
    /\ sensors[id].weather = "None"
    /\ \/ ThrottledCall(id)
       \/ \E reply \in Replies, d \in 0..MaxFetchTicks : FetchCall(id, reply, d)

\* MobileAlertsWeather.update, current branch: lines 322-324; an absent
\* entity is the AttributeError of None.attributes
CurrentUpdate(id) ==
    /\ sensors[id].weather # "None"
    /\ \E w \in WeatherStates :
        /\ sensors' = IF w.present
                      THEN [sensors EXCEPT ![id] = CopyWeather(@, w.attr)]
                      ELSE sensors
        /\ last' = [NoCall EXCEPT !.op = "current", !.id = id, !.at = now,
                                  !.done = now, !.raised = ~w.present,
                                  !.attr = w.attr]
    /\ UNCHANGED <<now, mad, lastReq, lastOk, lastGood, lastStored, probe>>

Update(id) == HistoricUpdate(id) \/ CurrentUpdate(id)

Next == Tick \/ \E id \in SensorIds : Update(id)

Spec == Init /\ [][Next]_vars

\* ------------------------------------- the pure functions, on their inputs

InitReading ==
    /\ InitSystem(NoMethod)
    /\ \E t \in Tables, m \in METHOD_TYPES \cup {NoMethod} :
        probe = [IdleProbe EXCEPT !.phase = "input", !.table = t, !.method = m]

ApplyGetMeasurements ==
    /\ probe.phase = "input"
    /\ \E is_numeric \in BOOLEAN :
        probe' = [probe EXCEPT
                    !.phase = "measured", !.is_numeric = is_numeric,
                    !.meas = get_measurements(probe.table, DEVICE_CLASS["temperature"],
                                              is_numeric)]
    /\ UNCHANGED sysvars

\* get_reading on a page that carries the table; result is the value of
\* its variable result before line 159
ApplyGetReading ==
    /\ probe.phase = "input"
    /\ \E res \in get_reading(Response(HTTP_OK, <<probe.table>>), "temperature",
                              probe.method) :
        LET m == get_measurements(probe.table, DEVICE_CLASS["temperature"], TRUE)
        IN  probe' = [probe EXCEPT
                        !.phase = "read", !.reading = res, !.meas = m,
                        !.result = IF m.raised \/ m.values = <<>> THEN NoResult
                                   ELSE Aggregate(m.values, probe.method)]
    /\ UNCHANGED sysvars

NextReading == ApplyGetMeasurements \/ ApplyGetReading

SpecReading == InitReading /\ [][NextReading]_vars

\* ================================================================= claims

Mode(s) ==
    IF s.mad # "None" /\ s.weather = "None" THEN "historic"
    ELSE IF s.mad = "None" /\ s.weather # "None" THEN "current"
    ELSE "neither"

Fetched == last.op = "historic" /\ last.nreq = 1
FetchedAs(classes) == Fetched /\ ReplyClass(last.reply, mad.device_class) \in classes

\* the step is a historic update of sensor id that issued a request: the
\* steps of HistoricUpdate(id) that run the fetcher's update
FetchStep(id) ==
    /\ last'.op = "historic" /\ last'.id = id /\ last'.nreq = 1
    /\ last'.at = now /\ last'.done = now'

\* the step is a current update of sensor id: the steps of CurrentUpdate(id)
CurrentStep(id) ==
    /\ last'.op = "current" /\ last'.id = id
    /\ last'.at = now /\ last'.done = now'

\* ---- C1

\* C1 as stated: a historic update less than one hour after the last call
\* that issued a request issues none, and one an hour or more after it
\* issues exactly one.
C1_Stated ==
    (last.op = "historic" /\ last.prevReq.set) =>
        IF last.at - last.prevReq.at < MIN_TIME_BETWEEN_UPDATES
        THEN last.nreq = 0 ELSE last.nreq = 1

\* C1, amended: measured from the moment the last call whose fetch returned
\* normally ended, an update at most one hour later issues no request; an
\* update more than one hour later, or with no such call before it, issues
\* exactly one.
C1_Throttle ==
    last.op = "historic" =>
        last.nreq = (IF last.prevOk.set
                        /\ last.at - last.prevOk.done <= MIN_TIME_BETWEEN_UPDATES
                     THEN 0 ELSE 1)

\* an update exactly one hour after a fetch that returned was throttled
C1_Witness ==
    /\ last.op = "historic" /\ last.throttled /\ last.prevOk.set
    /\ last.at - last.prevOk.done = MIN_TIME_BETWEEN_UPDATES

\* ---- C2

\* C2 as stated: a fetch that fails by connection failure, timeout or a
\* page without table leaves the cached data and unit as they were, issues
\* one request, and no request follows before the window that began with
\* the failed call has elapsed.
C2_Stated ==
    [][\A id \in SensorIds : FetchStep(id) =>
        /\ ReplyClass(last'.reply, mad.device_class)
                   \in {"connection", "timeout", "notable"}
             => (mad'.data = mad.data /\ mad'.unit = mad.unit /\ last'.nreq <= 1)
        /\ (lastReq.set
              /\ ReplyClass(lastReq.reply, mad.device_class)
                   \in {"connection", "timeout", "notable"})
             => now - lastReq.at >= MIN_TIME_BETWEEN_UPDATES]_vars

\* ---- C3

\* C3 as stated: when the GET fails with a connection failure or a timeout
\* of the HTTP client, get_results_table returns None and the update
\* completes without raising.
C3_Stated == FetchedAs({"connection", "timeout"}) => ~last.raised

\* ---- C4

\* C4: a status other than 200 raises through the sensor's update, which
\* leaves the sensor and the cache as they were; a 200 page without table
\* returns normally with the cache unchanged; the caller tells the two
\* apart by the exception.
C4_StatusRaises ==
    [][\A id \in SensorIds : FetchStep(id) =>
        /\ ReplyClass(last'.reply, mad.device_class) = "status"
             => (last'.raised /\ sensors' = sensors /\ mad' = mad)
        /\ ReplyClass(last'.reply, mad.device_class) = "notable"
             => (~last'.raised /\ mad'.data = mad.data /\ mad'.unit = mad.unit)]_vars

\* a non-200 response raised after the sensor had a value
C4_Witness ==
    /\ FetchedAs({"status"}) /\ last.raised
    /\ sensors[last.id].state.t # "None"

\* ---- C6

\* C6 as stated: after a connection or timeout failure, a page without
\* table or a column without readings, the sensor's state and unit are those
\* it had after the previous update that read values.
C6_Stated ==
    (FetchedAs({"connection", "timeout", "notable", "empty"}) /\ lastGood.set) =>
        SensorState(sensors[last.id]) = lastGood

\* C6, amended: after a connection or timeout failure or a page without
\* table the sensor's state and unit are those it had after the previous
\* update that stored a result; a column without readings stores the result
\* 0 with the empty unit, and the sensor shows them.
C6_Retains ==
    /\ (FetchedAs({"connection", "timeout", "notable"}) /\ lastStored.set) =>
          SensorState(sensors[last.id]) = lastStored
    /\ FetchedAs({"empty"}) =>
          /\ sensors[last.id].state = PyInt(0)
          /\ sensors[last.id].unit_of_measurement = PyStr(<<>>)

\* a page without table after the sensor had read values
C6_Witness ==
    /\ FetchedAs({"notable"}) /\ lastStored.set
    /\ lastStored.state.t = "float"
    /\ SensorState(sensors[last.id]) = lastStored

\* ---- C10

\* C10: each sensor keeps the mode it was built in; after a historic update
\* that returns, throttled or not, the sensor shows the fetcher's cache; a
\* current update issues no request, leaves the fetcher alone and shows the
\* parse of the weather entity's attribute.
C10_Modes ==
    /\ [](/\ Mode(sensors["h"]) = "historic" /\ Mode(sensors["c"]) = "current"
          /\ (last.op = "historic" /\ ~last.raised) =>
                /\ Mode(sensors[last.id]) = "historic"
                /\ sensors[last.id].state = mad.data
                /\ sensors[last.id].unit_of_measurement = mad.unit
          /\ (last.op = "current") =>
                /\ Mode(sensors[last.id]) = "current"
                /\ last.nreq = 0
                /\ ~last.raised =>
                      /\ sensors[last.id].state = extract_value_units(last.attr).value
                      /\ sensors[last.id].unit_of_measurement
                            = extract_value_units(last.attr).unit)
    /\ [][\A id \in SensorIds : CurrentStep(id) =>
            (mad' = mad /\ lastReq' = lastReq /\ now' = now)]_vars

\* a throttled historic update showing a cached value
C10_Witness ==
    /\ last.op = "historic" /\ last.throttled
    /\ mad.data.t = "float" /\ sensors[last.id].state = mad.data
    /\ sensors["c"].state.t = "float"

\* ---- the pure functions (SpecReading)

ProbeHasColumn == HasColumn(probe.table, "temperature")
ProbeCells == [r \in 1..Len(probe.table.body) |-> probe.table.body[r][2]]

\* get_reading returned an aggregate of a non-empty series
Aggregated ==
    /\ probe.phase = "read" /\ ~probe.reading.raised
    /\ ProbeHasColumn /\ probe.meas.values # <<>>

\* ---- C5

\* C5: for a table that has the column and no body rows, get_measurements
\* returns ([], "") and get_reading returns 0 with the empty unit, whatever
\* the method, set or not, and neither raises.
C5_EmptyColumn ==
    (probe.phase \in {"measured", "read"} /\ ProbeHasColumn /\ probe.table.body = <<>>) =>
        /\ probe.meas = [raised |-> FALSE, values |-> <<>>, unit |-> <<>>]
        /\ probe.phase = "read" =>
              probe.reading = [raised |-> FALSE, obs |-> PyInt(0), unit |-> PyStr(<<>>)]

\* get_reading ran on an empty column with no method configured
C5_Witness ==
    /\ probe.phase = "read" /\ ProbeHasColumn /\ probe.table.body = <<>>
    /\ probe.method = NoMethod /\ probe.reading.obs = PyInt(0)

\* ---- C7

RECURSIVE SumFirst(_, _)
SumFirst(values, n) == IF n = 0 THEN 0 ELSE SumFirst(values, n - 1) + values[n]

\* C7: before rounding, the result is the largest element for maximum, the
\* smallest for minimum, the sum over the count for mean, and the first
\* element minus the last for difference.
C7_Aggregates ==
    Aggregated =>
        LET values == probe.meas.values
            r == probe.result
            n == Len(values)
        IN  /\ probe.method = CONF_MAXIMUM =>
                /\ r.den = 1 /\ \E i \in 1..n : values[i] = r.num
                /\ \A i \in 1..n : values[i] <= r.num
            /\ probe.method = CONF_MINIMUM =>
                /\ r.den = 1 /\ \E i \in 1..n : values[i] = r.num
                /\ \A i \in 1..n : values[i] >= r.num
            /\ probe.method = CONF_MEAN =>
                r.num * n = SumFirst(values, n) * r.den
            /\ probe.method = CONF_DIFFERENCE =>
                (r.den = 1 /\ r.num = values[1] - values[n])

\* a difference over a series whose first and last readings differ
C7_Witness ==
    /\ Aggregated /\ probe.method = CONF_DIFFERENCE
    /\ Len(probe.meas.values) >= 2
    /\ probe.meas.values[1] > probe.meas.values[Len(probe.meas.values)]
    /\ probe.result.num > 0

\* ---- C8

\* the tenths of a returned value
Tenths(obs) == IF obs.t = "int" THEN 10 * obs.v ELSE obs.v

\* obs is result r cut to its whole part (towards zero)
IsTruncation(obs, r) ==
    /\ obs.t = "int"
    /\ IF r.num >= 0
       THEN 10 * obs.v * r.den <= r.num /\ r.num < 10 * (obs.v + 1) * r.den
       ELSE 10 * obs.v * r.den >= r.num /\ r.num > 10 * (obs.v - 1) * r.den

\* obs is result r to the nearest tenth
IsRoundedToTenth(obs, r) ==
    LET diff == Tenths(obs) * r.den - r.num
    IN  2 * diff <= r.den /\ 2 * diff >= 0 - r.den

\* C8 as stated: a result whose magnitude exceeds 100 is returned truncated
\* to an integer, any other rounded to one decimal place.
C8_Stated ==
    (Aggregated /\ probe.method \in METHOD_TYPES) =>
        LET r == probe.result
        IN  IF r.num > 1000 * r.den \/ r.num < 0 - 1000 * r.den
            THEN IsTruncation(probe.reading.obs, r)
            ELSE probe.reading.obs.t = "float" /\ IsRoundedToTenth(probe.reading.obs, r)

\* C8, amended: a result that exceeds 100 is returned truncated to an
\* integer; any other result, 100 itself and every negative result
\* included, is returned rounded to one decimal place.
C8_Rounding ==
    Aggregated =>
        LET r == probe.result
        IN  IF r.num > 1000 * r.den
            THEN IsTruncation(probe.reading.obs, r)
            ELSE /\ IsRoundedToTenth(probe.reading.obs, r)
                 /\ probe.method \in METHOD_TYPES => probe.reading.obs.t = "float"

\* a mean of 100.2 came back as the integer 100
C8_Witness ==
    /\ Aggregated /\ probe.method = CONF_MEAN
    /\ probe.result.num = 2004 /\ probe.result.den = 2
    /\ probe.reading.obs = PyInt(100)

\* ---- C9

\* text s without its last n characters
WithoutLast(s, n) == SubSeq(s, 1, Len(s) - n)

\* C9 as stated: with N the count extract_start_stop reports for the first
\* cell, get_measurements returns one value per body row, in row order, each
\* the row's text without its last N characters (as a number when numeric);
\* N = 0 leaves the text as it is; cells that are a number followed by the
\* same N-character suffix give back the numbers.
C9_Stated ==
    (probe.phase = "measured" /\ ProbeHasColumn /\ probe.table.body # <<>>) =>
        LET cells == ProbeCells
            N == extract_start_stop(cells[1]).reading_from_end
            rows == 1..Len(cells)
            fits == \A r \in rows : Len(cells[r]) >= N
            numbers == \A r \in rows : ParseFloat(WithoutLast(cells[r], N)).ok
        IN  /\ (fits /\ ~probe.is_numeric) =>
                /\ ~probe.meas.raised
                /\ Len(probe.meas.values) = Len(cells)
                /\ \A r \in rows : probe.meas.values[r] = WithoutLast(cells[r], N)
            /\ (fits /\ probe.is_numeric /\ numbers) =>
                /\ ~probe.meas.raised
                /\ Len(probe.meas.values) = Len(cells)
                /\ \A r \in rows :
                      probe.meas.values[r] = ParseFloat(WithoutLast(cells[r], N)).v
            /\ \A u \in Suffixes :
                (Len(u) = N /\ probe.is_numeric
                   /\ \A r \in rows : \E n \in NumTexts : cells[r] = n \o u) =>
                    /\ ~probe.meas.raised
                    /\ \A r \in rows : \E n \in NumTexts :
                          cells[r] = n \o u /\ probe.meas.values[r] = ParseFloat(n).v

====
